---------------------------- MODULE Spec2Model ----------------------------
(***************************************************************************)
(* Transcript pipeline of speech-recog-for-cyborg.                         *)
(*                                                                         *)
(* Three scripts build "meeting minutes" from audio:                       *)
(*   - "new full impli.py" (src/unnamed/part_000:14-198), the command-line *)
(*     script, variant "cli";                                              *)
(*   - "speaker detection.py" (src/unnamed/part_000:201-384), the upload   *)
(*     (diarization) script, variant "web";                                *)
(*   - speechreco.py, the microphone functions, variant "mic".  Its        *)
(*     functions are in the source up to save_minutes; the script that     *)
(*     drives them is not, so that driver is modelled from the spec.       *)
(*                                                                         *)
(* Strings are sequences of atoms (records with the same three fields), so *)
(* joins, slices and file writes are computed, not assumed.  The external  *)
(* services (speech recognition, translation, web search, diarization) are *)
(* nondeterministic: every outcome their callers can observe is drawn.     *)
(* Opening the audio source and the output file are taken to succeed.      *)
(***************************************************************************)
EXTENDS Integers, Sequences, FiniteSets

VARIABLES
    variant,            \* which script is running: "none", "cli", "web", "mic"
    language,           \* the language argument of the recognition call
    pc,                 \* position in the script
    executed,           \* stages that have returned in this run
    recog,              \* outcome of the recognition call of this run
    recognized_text,    \* script global recognized_text
    translated_text,    \* script global translated_text
    preprocessed_text,  \* script global preprocessed_text
    keywords,           \* script global keywords
    summary,            \* script global summary
    news_articles,      \* script global news_articles
    out,                \* messages printed / displayed in this run
    raised,             \* exception that left the script, or "none"
    saved,              \* save_minutes has written in this run
    fs,                 \* the file system: path -> content
    now,                \* the wall clock: [date, tod]
    runs,               \* runs started so far
    saves,              \* history of completed save_minutes calls
    fcall,              \* function harness: the call made
    fret                \* function harness: what it returned

vars == <<variant, language, pc, executed, recog, recognized_text,
          translated_text, preprocessed_text, keywords, summary,
          news_articles, out, raised, saved, fs, now, runs, saves,
          fcall, fret>>

pipelineVars == <<variant, language, pc, executed, recog, recognized_text,
                  translated_text, preprocessed_text, keywords, summary,
                  news_articles, out, raised, saved, runs>>

---------------------------------------------------------------------------
(* Bounds of the model. *)

MaxRuns == 2
MaxDate == 1
MaxSegments == 5
MaxTokens == 4
MaxK == 3
MaxTextLen == 5
MaxN == 3
MaxMinutes == 3

(* Program constants. *)

DefaultNumKeywords == 5
DefaultNumSentences == 3

---------------------------------------------------------------------------
(* Values. *)

SeqsUpTo(S, n) == UNION {[1..k -> S] : k \in 0..n}

Min(a, b) == IF a < b THEN a ELSE b
Max(a, b) == IF a > b THEN a ELSE b

\* Python's None and a str value, as one type.
None == [some |-> FALSE, val |-> <<>>]
Some(s) == [some |-> TRUE, val |-> s]

\* Atoms of a string.
Word(w) == [k |-> "word", w |-> w, n |-> 0]
Space == [k |-> "space", w |-> " ", n |-> 0]
SpeakerMarker(s) == [k |-> "speaker", w |-> "", n |-> s]
SegmentHeader(i) == [k |-> "segment", w |-> "", n |-> i]
BlankLine == [k |-> "blank", w |-> "", n |-> 0]

Str(ws) == [i \in 1..Len(ws) |-> Word(ws[i])]

\* A guard that is never false.
TruthyAlways(x) == TRUE

\* `if x:` on a str-or-None value.
Truthy(x) == x.some /\ x.val # <<>>

\* sep.join(items): the items with sep between consecutive ones.
RECURSIVE Join(_, _)
Join(items, sep) ==
    IF items = <<>> THEN <<>>
    ELSE IF Len(items) = 1 THEN items[1]
    ELSE items[1] \o <<sep>> \o Join(Tail(items), sep)

\* items[:n]
SliceTo(items, n) ==
    IF n >= 0 THEN SubSeq(items, 1, Min(n, Len(items)))
    ELSE SubSeq(items, 1, Max(Len(items) + n, 0))

---------------------------------------------------------------------------
(* Recognition: recognize_speech_from_file (command-line script) and       *)
(* recognize_speech (microphone).  The local recognized_text is unbound    *)
(* until a branch assigns it; `return recognized_text` on an unbound local *)
(* raises UnboundLocalError.                                               *)

Languages == {"en-IN", "hi-IN", "or-IN", "fr-FR", "ta-IN"}
SupportedLanguages == {"en-IN", "hi-IN", "or-IN"}

RecognizedTexts == {<<>>, Str(<<"the">>), Str(<<"cats", "run", ".">>)}

\* What recognizer.recognize_google(audio, language) can do: return a
\* transcript, raise UnknownValueError (unintelligible audio), or raise
\* anything else (RequestError: the service call itself failed).
ServiceOutcomes ==
    {[kind |-> "text", val |-> t] : t \in RecognizedTexts}
    \cup {[kind |-> "UnknownValueError", val |-> <<>>],
          [kind |-> "RequestError", val |-> <<>>]}

\* State at the end of the try statement: whether the local recognized_text
\* is bound and to what, what was printed, what the service was seen to do
\* ("not called" when it was not called), and the exception not caught.
TryState(bound, value, printed, service, exc) ==
    [bound |-> bound, value |-> value, printed |-> printed,
     service |-> service, exc |-> exc]

\* language == 'en-IN' / 'hi-IN': recognized_text = recognize_google(...),
\* with `except sr.UnknownValueError` around it.
GoogleBranch(svc) ==
    CASE svc.kind = "text" ->
            TryState(TRUE, Some(svc.val), <<>>, svc.kind, "none")
      [] svc.kind = "UnknownValueError" ->
            TryState(TRUE, None, <<"Unable to recognize speech">>, svc.kind,
                     "none")
      [] OTHER ->
            TryState(FALSE, None, <<>>, svc.kind, svc.kind)

\* language == 'or-IN': only a print; recognized_text is not assigned.
OdiaBranch ==
    TryState(FALSE, None, <<"Listening for Odia speech...">>, "not called",
             "none")

\* An else branch that sends the audio to the service all the same.
UnsupportedBranchCallsService ==
    TryState(TRUE, Some(Str(<<"the">>)), <<>>, "text", "none")

\* else: recognized_text = None; print("Language not supported")
UnsupportedBranch ==
    TryState(TRUE, None, <<"Language not supported">>, "not called", "none")

\* `return recognized_text` after the try statement.
ReturnLocal(t, before) ==
    IF t.exc # "none"
    THEN [kind |-> "raise", value |-> None, exc |-> t.exc,
          service |-> t.service, printed |-> before \o t.printed]
    ELSE IF ~t.bound
    THEN [kind |-> "raise", value |-> None, exc |-> "UnboundLocalError",
          service |-> t.service, printed |-> before \o t.printed]
    ELSE [kind |-> "return", value |-> t.value, exc |-> "none",
          service |-> t.service, printed |-> before \o t.printed]

LanguageDispatch(lang, svc) ==
    IF lang = "en-IN" THEN GoogleBranch(svc)
    ELSE IF lang = "hi-IN" THEN GoogleBranch(svc)
    ELSE IF lang = "or-IN" THEN OdiaBranch
    ELSE UnsupportedBranch

recognize_speech_from_file(lang, svc) ==
    ReturnLocal(LanguageDispatch(lang, svc), <<>>)

recognize_speech(lang, svc) ==
    ReturnLocal(LanguageDispatch(lang, svc), <<"Listening for speech...">>)

---------------------------------------------------------------------------
(* Diarization labelling: recognize_speech_from_file of the upload script. *)

Speakers == {0, 1}
Speeches == {Str(<<"a">>), Str(<<"b">>)}
Segment(speaker, speech) == [speaker |-> speaker, speech |-> speech]
Segments == {Segment(s, t) : s \in Speakers, t \in Speeches}

\* previous_speaker: None, or a speaker id.
NoSpeaker == [some |-> FALSE, n |-> 0]
ASpeaker(s) == [some |-> TRUE, n |-> s]

\* A loop that labels every segment, forgetting previous_speaker.
RECURSIVE LabelAlways(_, _, _)
LabelAlways(segments, previous_speaker, labelled) ==
    IF segments = <<>> THEN labelled
    ELSE LabelAlways(Tail(segments), previous_speaker,
                     labelled \o <<<<SpeakerMarker(Head(segments).speaker)>>,
                                   Head(segments).speech>>)

\* for seg in segments: ... ; recognized_text is the list being appended to.
RECURSIVE LabelLoop(_, _, _)
LabelLoop(segments, previous_speaker, labelled) ==
    IF segments = <<>> THEN labelled
    ELSE LET speaker == Head(segments).speaker
             speech == Head(segments).speech
         IN  IF ASpeaker(speaker) # previous_speaker
             THEN LabelLoop(Tail(segments), ASpeaker(speaker),
                            labelled \o <<<<SpeakerMarker(speaker)>>, speech>>)
             ELSE LabelLoop(Tail(segments), previous_speaker,
                            labelled \o <<speech>>)

recognize_speech_from_file_diarized(segments) ==
    Join(LabelLoop(segments, NoSpeaker, <<>>), Space)

---------------------------------------------------------------------------
(* Text analysis. *)

StopWords == {"the"}
Punctuation == {"."}
Lemma(w) == IF w = "runs" THEN "run" ELSE IF w = "cats" THEN "cat" ELSE w

\* [token.lemma_ for token in doc if not token.is_stop and not token.is_punct]
RECURSIVE preprocess_text(_)
preprocess_text(text) ==
    IF text = <<>> THEN <<>>
    ELSE LET token == Head(text)
             keep == token.k = "word" /\ token.w \notin StopWords
                     /\ token.w \notin Punctuation
         IN  (IF keep THEN <<Lemma(token.w)>> ELSE <<>>)
             \o preprocess_text(Tail(text))

\* Counter(text): the distinct elements in first-occurrence order, and
\* how often each occurs.
RECURSIVE CounterKeys(_, _)
CounterKeys(text, seen) ==
    IF text = <<>> THEN seen
    ELSE IF \E i \in 1..Len(seen) : seen[i] = Head(text)
         THEN CounterKeys(Tail(text), seen)
         ELSE CounterKeys(Tail(text), Append(seen, Head(text)))

CountOf(text, w) == Cardinality({i \in 1..Len(text) : text[i] = w})

Counter(text) ==
    [keys |-> CounterKeys(text, <<>>),
     get |-> [w \in {text[i] : i \in 1..Len(text)} |-> CountOf(text, w)]]

RemoveAt(s, i) == SubSeq(s, 1, i - 1) \o SubSeq(s, i + 1, Len(s))

\* heapq.nsmallest: the n least frequent.
RECURSIVE nsmallest(_, _, _)
nsmallest(n, iterable, key) ==
    IF n <= 0 \/ iterable = <<>> THEN <<>>
    ELSE LET best == CHOOSE i \in 1..Len(iterable) :
                        /\ \A j \in 1..Len(iterable) :
                              key[iterable[i]] <= key[iterable[j]]
                        /\ \A j \in 1..(i - 1) :
                              key[iterable[i]] < key[iterable[j]]
         IN  <<iterable[best]>>
             \o nsmallest(n - 1, RemoveAt(iterable, best), key)

\* heapq.nlargest(n, iterable, key): sorted(iterable, key=key,
\* reverse=True)[:n]; the sort is stable, and n <= 0 gives [].
RECURSIVE nlargest(_, _, _)
nlargest(n, iterable, key) ==
    IF n <= 0 \/ iterable = <<>> THEN <<>>
    ELSE LET best == CHOOSE i \in 1..Len(iterable) :
                        /\ \A j \in 1..Len(iterable) :
                              key[iterable[j]] <= key[iterable[i]]
                        /\ \A j \in 1..(i - 1) :
                              key[iterable[j]] < key[iterable[i]]
         IN  <<iterable[best]>>
             \o nlargest(n - 1, RemoveAt(iterable, best), key)

extract_keywords(text, num_keywords) ==
    LET word_freq == Counter(text)
    IN  nlargest(num_keywords, word_freq.keys, word_freq.get)

\* doc.sents: a sentence ends with a punctuation token, or with the text.
RECURSIVE Sents(_, _)
Sents(text, current) ==
    IF text = <<>> THEN (IF current = <<>> THEN <<>> ELSE <<current>>)
    ELSE IF Head(text).w \in Punctuation
         THEN <<Append(current, Head(text))>> \o Sents(Tail(text), <<>>)
         ELSE Sents(Tail(text), Append(current, Head(text)))

\* sentences[:num_sentences + 1]
SliceOffByOne(items, n) == SliceTo(items, n + 1)

\* sentences[:num_sentences]
SummarySlice(sentences, num_sentences) == SliceTo(sentences, num_sentences)

generate_summary(text, num_sentences) ==
    LET sentences == Sents(text, <<>>)
    IN  Join(SummarySlice(sentences, num_sentences), Space)

---------------------------------------------------------------------------
(* Persistence. *)

DefaultFilename == "meeting_minutes.txt"

\* datetime.now().strftime('%Y-%m-%d'): the date, without the time of day.
get_timestamp(clock) == clock.date

\* f"{filename}-{timestamp}"
PathOf(filename, timestamp) == [name |-> filename, stamp |-> timestamp]

\* open(path, "a"): create the file, or keep what it holds.
OpenAppend(fsys, path) ==
    [p \in DOMAIN fsys \cup {path} |->
        IF p \in DOMAIN fsys THEN fsys[p] ELSE <<>>]

\* open(path, "w"): create the file, or truncate it.
OpenWrite(fsys, path) ==
    [p \in DOMAIN fsys \cup {path} |-> IF p = path THEN <<>> ELSE fsys[p]]

\* file.write(data)
FileWrite(fsys, path, data) == [fsys EXCEPT ![path] = @ \o data]

\* The block numbered i, counting from 0.
EnumerateFromOne(i) == i

\* enumerate(...) counts from 0; the block is numbered i + 1.
SegmentNumber(i) == i + 1

\* for i, speech in enumerate(meeting_minutes): file.write(...)
RECURSIVE WriteSegments(_, _, _, _)
WriteSegments(fsys, path, meeting_minutes, i) ==
    IF i >= Len(meeting_minutes) THEN fsys
    ELSE WriteSegments(
            FileWrite(fsys, path,
                      <<SegmentHeader(SegmentNumber(i))>>
                      \o meeting_minutes[i + 1] \o <<BlankLine>>),
            path, meeting_minutes, i + 1)

save_minutes(fsys, meeting_minutes, filename, clock) ==
    LET path == PathOf(filename, get_timestamp(clock))
    IN  WriteSegments(OpenWrite(fsys, path), path, meeting_minutes, 0)

save_minutes_labelled(fsys, text, filename, clock) ==
    LET path == PathOf(filename, get_timestamp(clock))
    IN  FileWrite(OpenWrite(fsys, path), path, text)

---------------------------------------------------------------------------
(* External services of the scripts. *)

TranslatedTexts ==
    {<<>>, Str(<<"the">>),
     Str(<<"cats", "run", ".", "the", "cat", "runs", ".">>),
     Str(<<"a", ".", "b", ".", "c", ".", "d", ".">>)}

Returned(v) == [kind |-> "return", value |-> v, exc |-> "none"]
Raised(e) == [kind |-> "raise", value |-> None, exc |-> e]

\* GoogleTranslator(...).translate(text): a str, None, or an exception.
translate_text(text) ==
    {Returned(Some(t)) : t \in TranslatedTexts}
    \cup {Returned(None), Raised("TranslationError")}

\* requests.get + BeautifulSoup: the snippets found (possibly none), or an
\* exception of the HTTP library.
search_web(text) ==
    {[kind |-> "return", value |-> <<>>, exc |-> "none"],
     [kind |-> "return", value |-> <<"headline">>, exc |-> "none"],
     [kind |-> "raise", value |-> <<>>, exc |-> "RequestException"]}

\* audioSegmentation.speaker_diarization(...), as the upload script reads
\* it: ordered segments with a speaker id and a text.
DiarizationOutcomes ==
    {<<>>,
     <<Segment(0, Str(<<"a">>))>>,
     <<Segment(0, Str(<<"a">>)), Segment(1, Str(<<"b">>))>>}

---------------------------------------------------------------------------
(* The scripts. *)

NoCall == [kind |-> "none", value |-> None, exc |-> "none",
           service |-> "not called", printed |-> <<>>]

Epoch == [date |-> 0, late |-> FALSE]

Init ==
    /\ variant = "none"
    /\ language = "en-IN"
    /\ pc = "idle"
    /\ executed = {}
    /\ recog = NoCall
    /\ recognized_text = None
    /\ translated_text = None
    /\ preprocessed_text = <<>>
    /\ keywords = <<>>
    /\ summary = <<>>
    /\ news_articles = <<>>
    /\ out = <<>>
    /\ raised = "none"
    /\ saved = FALSE
    /\ fs = [p \in {} |-> <<>>]
    /\ now = Epoch
    /\ runs = 0
    /\ saves = <<>>
    /\ fcall = [fn |-> "none"]
    /\ fret = [fn |-> "none"]

Ended == pc \in {"idle", "done", "crashed"}

\* A new process: every global is fresh.
StartRun(v, lang) ==
    /\ Ended
    /\ fcall.fn = "none"
    /\ runs < MaxRuns
    /\ runs' = runs + 1
    /\ variant' = v
    /\ language' = lang
    /\ pc' = "recognize"
    /\ executed' = {}
    /\ recog' = NoCall
    /\ recognized_text' = None
    /\ translated_text' = None
    /\ preprocessed_text' = <<>>
    /\ keywords' = <<>>
    /\ summary' = <<>>
    /\ news_articles' = <<>>
    /\ out' = <<>>
    /\ raised' = "none"
    /\ saved' = FALSE
    /\ UNCHANGED <<fs, now, saves, fcall, fret>>

\* recognize_speech_from_file(audio_file_path): language defaults to en-IN.
CliStart == StartRun("cli", "en-IN")

\* `if uploaded_file:` with a file uploaded; the language is not passed.
WebStart == StartRun("web", "en-IN")

\* The microphone driver: the language code is an input of the run.
MicStart == \E lang \in Languages : StartRun("mic", lang)

\* The clock moves on: later the same day, or the next day.
Tick ==
    /\ fcall.fn = "none"
    /\ IF ~now.late
       THEN now' = [now EXCEPT !.late = TRUE]
       ELSE /\ now.date < MaxDate
            /\ now' = [date |-> now.date + 1, late |-> FALSE]
    /\ UNCHANGED <<pipelineVars, fs, saves, fcall, fret>>

Crash(e) ==
    /\ pc' = "crashed"
    /\ raised' = e

\* recognized_text = recognize_speech_from_file(...); print it; then
\* `if recognized_text:` ... `else: print("No speech recognized.")`
ConsoleRecognize(r) ==
    /\ recog' = r
    /\ IF r.kind = "raise"
       THEN /\ Crash(r.exc)
            /\ out' = out \o r.printed
            /\ UNCHANGED <<recognized_text, executed>>
       ELSE /\ recognized_text' = r.value
            /\ executed' = executed \cup {"recognition"}
            /\ raised' = raised
            /\ IF Truthy(r.value)
               THEN /\ pc' = "translate"
                    /\ out' = out \o r.printed \o <<"Recognized Text:">>
               ELSE /\ pc' = "done"
                    /\ out' = out \o r.printed
                              \o <<"Recognized Text:", "No speech recognized.">>
    /\ UNCHANGED <<variant, language, translated_text, preprocessed_text,
                   keywords, summary, news_articles, saved, fs, now, runs,
                   saves, fcall, fret>>

CliRecognize ==
    /\ pc = "recognize" /\ variant = "cli"
    /\ \E svc \in ServiceOutcomes :
          ConsoleRecognize(recognize_speech_from_file(language, svc))

MicRecognize ==
    /\ pc = "recognize" /\ variant = "mic"
    /\ \E svc \in ServiceOutcomes :
          ConsoleRecognize(recognize_speech(language, svc))

\* recognized_text = recognize_speech_from_file(uploaded_file);
\* `if recognized_text:` st.write(...), and no else.
WebRecognize ==
    /\ pc = "recognize" /\ variant = "web"
    /\ \E segments \in DiarizationOutcomes :
          LET text == Some(recognize_speech_from_file_diarized(segments))
          IN  /\ recog' = [kind |-> "return", value |-> text, exc |-> "none",
                           service |-> "not called", printed |-> <<>>]
              /\ recognized_text' = text
              /\ executed' = executed \cup {"recognition"}
              /\ IF Truthy(text)
                 THEN /\ pc' = "translate"
                      /\ out' = out \o <<"Recognized Text with Speaker Labels:">>
                 ELSE /\ pc' = "done"
                      /\ out' = out
    /\ UNCHANGED <<variant, language, translated_text, preprocessed_text,
                   keywords, summary, news_articles, raised, saved, fs, now,
                   runs, saves, fcall, fret>>

\* translated_text = translate_text(recognized_text, dest_language='en');
\* `if translated_text:` ... `else: print("Translation failed.")`
ConsoleTranslate ==
    /\ pc = "translate" /\ variant \in {"cli", "mic"}
    /\ \E t \in translate_text(recognized_text.val) :
          IF t.kind = "raise"
          THEN /\ Crash(t.exc)
               /\ UNCHANGED <<translated_text, executed, out>>
          ELSE /\ translated_text' = t.value
               /\ executed' = executed \cup {"translation"}
               /\ raised' = raised
               /\ IF Truthy(t.value)
                  THEN /\ pc' = "preprocess"
                       /\ out' = out \o <<"Translated Text:">>
                  ELSE /\ pc' = "done"
                       /\ out' = out \o <<"Translated Text:", "Translation failed.">>
    /\ UNCHANGED <<variant, language, recog, recognized_text,
                   preprocessed_text, keywords, summary, news_articles, saved,
                   fs, now, runs, saves, fcall, fret>>

\* The upload script: `if translated_text:` st.write(...), and no else.
WebTranslate ==
    /\ pc = "translate" /\ variant = "web"
    /\ \E t \in translate_text(recognized_text.val) :
          IF t.kind = "raise"
          THEN /\ Crash(t.exc)
               /\ UNCHANGED <<translated_text, executed, out>>
          ELSE /\ translated_text' = t.value
               /\ executed' = executed \cup {"translation"}
               /\ raised' = raised
               /\ IF Truthy(t.value)
                  THEN /\ pc' = "preprocess"
                       /\ out' = out \o <<"Translated Text:">>
                  ELSE /\ pc' = "done"
                       /\ out' = out
    /\ UNCHANGED <<variant, language, recog, recognized_text,
                   preprocessed_text, keywords, summary, news_articles, saved,
                   fs, now, runs, saves, fcall, fret>>

\* preprocessed_text = preprocess_text(translated_text)
Preprocess ==
    /\ pc = "preprocess"
    /\ preprocessed_text' = preprocess_text(translated_text.val)
    /\ executed' = executed \cup {"preprocessing"}
    /\ out' = out \o <<"Preprocessed Text:">>
    /\ pc' = "keywords"
    /\ UNCHANGED <<variant, language, recog, recognized_text, translated_text,
                   keywords, summary, news_articles, raised, saved, fs, now,
                   runs, saves, fcall, fret>>

\* keywords = extract_keywords(preprocessed_text)
Keywords ==
    /\ pc = "keywords"
    /\ keywords' = extract_keywords(preprocessed_text, DefaultNumKeywords)
    /\ executed' = executed \cup {"keywords"}
    /\ out' = out \o <<"Keywords:">>
    /\ pc' = "summary"
    /\ UNCHANGED <<variant, language, recog, recognized_text, translated_text,
                   preprocessed_text, summary, news_articles, raised, saved,
                   fs, now, runs, saves, fcall, fret>>

\* summary = generate_summary(translated_text)
Summarize ==
    /\ pc = "summary"
    /\ summary' = generate_summary(translated_text.val, DefaultNumSentences)
    /\ executed' = executed \cup {"summary"}
    /\ out' = out \o <<"Summary:">>
    /\ pc' = "search"
    /\ UNCHANGED <<variant, language, recog, recognized_text, translated_text,
                   preprocessed_text, keywords, news_articles, raised, saved,
                   fs, now, runs, saves, fcall, fret>>

\* (topic = keywords[0] if keywords else "general"; topic is not used)
\* news_articles = search_web(translated_text)
Search ==
    /\ pc = "search"
    /\ \E r \in search_web(translated_text.val) :
          IF r.kind = "raise"
          THEN /\ Crash(r.exc)
               /\ UNCHANGED <<news_articles, executed, out>>
          ELSE /\ news_articles' = r.value
               /\ executed' = executed \cup {"search"}
               /\ out' = out \o <<"News Articles:">>
               /\ raised' = raised
               /\ pc' = "save"
    /\ UNCHANGED <<variant, language, recog, recognized_text, translated_text,
                   preprocessed_text, keywords, summary, saved, fs, now, runs,
                   saves, fcall, fret>>

SaveRecord(text) ==
    [at |-> now, variant |-> variant, filename |-> DefaultFilename,
     path |-> PathOf(DefaultFilename, get_timestamp(now)), text |-> text]

\* save_minutes([translated_text]); print("Meeting minutes saved to file.")
ConsoleSave ==
    /\ pc = "save" /\ variant \in {"cli", "mic"}
    /\ fs' = save_minutes(fs, <<translated_text.val>>, DefaultFilename, now)
    /\ saves' = Append(saves, SaveRecord(translated_text.val))
    /\ saved' = TRUE
    /\ executed' = executed \cup {"persistence"}
    /\ out' = out \o <<"Meeting minutes saved to file.">>
    /\ pc' = "done"
    /\ UNCHANGED <<variant, language, recog, recognized_text, translated_text,
                   preprocessed_text, keywords, summary, news_articles,
                   raised, now, runs, fcall, fret>>

\* save_minutes(recognized_text); st.write("... saved to file.")
WebSave ==
    /\ pc = "save" /\ variant = "web"
    /\ fs' = save_minutes_labelled(fs, recognized_text.val, DefaultFilename, now)
    /\ saves' = Append(saves, SaveRecord(recognized_text.val))
    /\ saved' = TRUE
    /\ executed' = executed \cup {"persistence"}
    /\ out' = out \o <<"Meeting minutes with speaker labels saved to file.">>
    /\ pc' = "done"
    /\ UNCHANGED <<variant, language, recog, recognized_text, translated_text,
                   preprocessed_text, keywords, summary, news_articles,
                   raised, now, runs, fcall, fret>>

\* The two scripts of the source.
Next ==
    \/ CliStart
    \/ WebStart
    \/ Tick
    \/ CliRecognize
    \/ WebRecognize
    \/ ConsoleTranslate
    \/ WebTranslate
    \/ Preprocess
    \/ Keywords
    \/ Summarize
    \/ Search
    \/ ConsoleSave
    \/ WebSave

Spec == Init /\ [][Next]_vars

\* The scripts and the microphone driver.
NextMic ==
    \/ Next
    \/ MicStart
    \/ MicRecognize

SpecMic == Init /\ [][NextMic]_vars

---------------------------------------------------------------------------
(* The functions called on their own, on every input within the bounds.    *)

Tokens == {"a", "b", "c"}
SummaryWords == {Word("a"), Word(".")}
MinuteTexts == {<<>>, Str(<<"a">>), Str(<<"a", "b">>)}

Idle == fcall.fn = "none"

CallRecognize ==
    /\ Idle
    /\ \E fn \in {"recognize_speech", "recognize_speech_from_file"},
          lang \in Languages, svc \in ServiceOutcomes :
          /\ fcall' = [fn |-> fn, language |-> lang, svc |-> svc]
          /\ fret' = IF fn = "recognize_speech"
                     THEN recognize_speech(lang, svc)
                     ELSE recognize_speech_from_file(lang, svc)
    /\ UNCHANGED <<pipelineVars, fs, now, saves>>

CallDiarize ==
    /\ Idle
    /\ \E segments \in SeqsUpTo(Segments, MaxSegments) :
          /\ fcall' = [fn |-> "diarize", segments |-> segments]
          /\ fret' = [text |-> recognize_speech_from_file_diarized(segments)]
    /\ UNCHANGED <<pipelineVars, fs, now, saves>>

CallExtractKeywords ==
    /\ Idle
    /\ \E text \in SeqsUpTo(Tokens, MaxTokens), k \in 0..MaxK :
          /\ fcall' = [fn |-> "extract_keywords", text |-> text,
                       num_keywords |-> k]
          /\ fret' = [list |-> extract_keywords(text, k)]
    /\ UNCHANGED <<pipelineVars, fs, now, saves>>

CallGenerateSummary ==
    /\ Idle
    /\ \E text \in SeqsUpTo(SummaryWords, MaxTextLen), n \in (-1)..MaxN :
          /\ fcall' = [fn |-> "generate_summary", text |-> text,
                       num_sentences |-> n]
          /\ fret' = [text |-> generate_summary(text, n)]
    /\ UNCHANGED <<pipelineVars, fs, now, saves>>

\* save_minutes may follow save_minutes: the file of the earlier call is
\* there when the later one opens it.
CallSaveMinutes ==
    /\ fcall.fn \in {"none", "save_minutes"}
    /\ \E meeting_minutes \in SeqsUpTo(MinuteTexts, MaxMinutes) :
          /\ fcall' = [fn |-> "save_minutes",
                       meeting_minutes |-> meeting_minutes,
                       path |-> PathOf(DefaultFilename, get_timestamp(now)),
                       before |-> fs]
          /\ fs' = save_minutes(fs, meeting_minutes, DefaultFilename, now)
          /\ fret' = [fn |-> "none"]
    /\ UNCHANGED <<pipelineVars, now, saves>>

FnReturn ==
    /\ ~Idle
    /\ fcall' = [fn |-> "none"]
    /\ fret' = [fn |-> "none"]
    /\ fs' = [p \in {} |-> <<>>]
    /\ UNCHANGED <<pipelineVars, now, saves>>

NextFn ==
    \/ CallRecognize
    \/ CallDiarize
    \/ CallExtractKeywords
    \/ CallGenerateSummary
    \/ CallSaveMinutes
    \/ FnReturn

SpecFn == Init /\ [][NextFn]_vars

---------------------------------------------------------------------------
(* Claims. *)

RunOver == pc \in {"done", "crashed"}

IsEmptyOrNone(x) == ~x.some \/ Len(x.val) = 0

StageDiagnostics ==
    {"No speech recognized.", "Translation failed.",
     "Unable to recognize speech", "Language not supported"}

Printed(m) == \E i \in 1..Len(out) : out[i] = m

\* C1: every run of the command-line script and of the upload script ends
\* with the minutes file written, or with no file written and a diagnostic
\* naming the failed stage (recognition or translation) printed or
\* displayed; no run ends with no file and no diagnostic.
C1_FileOrDiagnostic ==
    RunOver => (saved \/ \E m \in StageDiagnostics : Printed(m))

StageOrder ==
    <<"recognition", "translation", "preprocessing", "keywords", "summary",
      "search", "persistence">>

StageIndex(s) == CHOOSE i \in 1..Len(StageOrder) : StageOrder[i] = s

LaterStages(s) ==
    {StageOrder[i] : i \in (StageIndex(s) + 1)..Len(StageOrder)}

ReturnedEmpty(s) ==
    /\ s \in executed
    /\ CASE s = "recognition" -> IsEmptyOrNone(recognized_text)
         [] s = "translation" -> IsEmptyOrNone(translated_text)
         [] s = "preprocessing" -> Len(preprocessed_text) = 0
         [] s = "keywords" -> Len(keywords) = 0
         [] s = "summary" -> Len(summary) = 0
         [] s = "search" -> Len(news_articles) = 0

ShortCircuits(s) ==
    ReturnedEmpty(s) => (LaterStages(s) \cap executed = {} /\ ~saved)

\* C2 as stated: for every stage (recognition, translation, preprocessing
\* and keyword extraction, summarization, web search), a stage that returns
\* an empty or None result is followed by no later stage in that run, and
\* the minutes file is not written.
C2_EveryStageShortCircuits ==
    \A s \in {"recognition", "translation", "preprocessing", "keywords",
              "summary", "search"} : ShortCircuits(s)

\* C2 as amended: an empty or None result of the recognition stage or of
\* the translation stage is followed by no later stage and no minutes file;
\* the results of preprocessing, keyword extraction, summarization and web
\* search are not tested, so a run whose translation is non-empty and that
\* ends without an exception has written the minutes file.
C2_RecognitionAndTranslationShortCircuit ==
    /\ ShortCircuits("recognition")
    /\ ShortCircuits("translation")
    /\ (pc = "done" /\ "translation" \in executed
           /\ ~IsEmptyOrNone(translated_text))
         => (saved /\ LaterStages("translation") \subseteq executed)

C2_Witness ==
    /\ pc = "done"
    /\ "translation" \in executed
    /\ IsEmptyOrNone(translated_text)
    /\ ~IsEmptyOrNone(recognized_text)

\* C3: for a language code outside en-IN, hi-IN and or-IN the recognition
\* stage returns None, without calling the recognition service and without
\* raising, and the run executes no translation, keyword, summary, search
\* or persistence stage.
C3_UnsupportedLanguage ==
    (variant \in {"cli", "mic"} /\ language \notin SupportedLanguages
        /\ recog.kind # "none")
      => /\ recog.kind = "return"
         /\ recog.value = None
         /\ recog.service = "not called"
         /\ raised = "none"
         /\ executed = {"recognition"}
         /\ ~saved
         /\ pc = "done"

C3_Witness ==
    /\ variant = "mic"
    /\ language = "fr-FR"
    /\ recog.kind = "return"
    /\ Printed("Language not supported")
    /\ pc = "done"

RecognitionCalls == {"recognize_speech", "recognize_speech_from_file"}

\* C4: for language code or-IN, recognize_speech and
\* recognize_speech_from_file complete normally and return None, whatever
\* the audio.
C4_OdiaReturnsNone ==
    (fcall.fn \in RecognitionCalls /\ fcall.language = "or-IN")
      => (fret.kind = "return" /\ fret.value = None)

\* C5: when the recognition service fails on the audio (it cannot
\* transcribe it, or the call itself fails), the recognition stage returns
\* an empty or None transcript, the run stops before translation, and no
\* exception leaves the script.
C5_ServiceFailureContained ==
    (variant = "cli"
        /\ recog.service \in {"UnknownValueError", "RequestError"})
      => /\ recog.kind = "return"
         /\ IsEmptyOrNone(recog.value)
         /\ "translation" \notin executed
         /\ raised = "none"
         /\ pc # "crashed"

IsSpeech(a) == a.k = "word"
IsMarker(a) == a.k = "speaker"

\* Position in text of its i-th speech atom.
SpeechPos(text, i) ==
    CHOOSE p \in 1..Len(text) :
        /\ IsSpeech(text[p])
        /\ Cardinality({q \in 1..p : IsSpeech(text[q])}) = i

SpeakerChanges(segments, i) ==
    i = 1 \/ segments[i].speaker # segments[i - 1].speaker

MarkerBefore(text, i) ==
    LET p == SpeechPos(text, i)
    IN  p >= 3 /\ text[p - 1] = Space /\ IsMarker(text[p - 2])

\* C6: the labelled text holds every segment's text in the original order,
\* and a speaker marker immediately before segment i exactly when i is the
\* first segment or its speaker differs from that of segment i - 1 (the
\* marker names the speaker of segment i); speakers [A, A, B, B, A] give
\* three markers, before segments 1, 3 and 5.
C6_MarkerAtSpeakerChange ==
    fcall.fn = "diarize" =>
      LET segments == fcall.segments
          text == fret.text
          n == Len(segments)
      IN  /\ Cardinality({p \in 1..Len(text) : IsSpeech(text[p])}) = n
          /\ \A i \in 1..n :
                /\ <<text[SpeechPos(text, i)]>> = segments[i].speech
                /\ MarkerBefore(text, i) <=> SpeakerChanges(segments, i)
                /\ SpeakerChanges(segments, i) =>
                      text[SpeechPos(text, i) - 2]
                         = SpeakerMarker(segments[i].speaker)
          /\ Cardinality({p \in 1..Len(text) : IsMarker(text[p])})
                = Cardinality({i \in 1..n : SpeakerChanges(segments, i)})
          /\ \A p \in 1..Len(text) :
                text[p] = Space <=> (p % 2 = 0)

C6_Witness ==
    /\ fcall.fn = "diarize"
    /\ Len(fcall.segments) = 5
    /\ [i \in 1..5 |-> fcall.segments[i].speaker] = <<0, 0, 1, 1, 0>>
    /\ Cardinality({p \in 1..Len(fret.text) : IsMarker(fret.text[p])}) = 3
    /\ MarkerBefore(fret.text, 1) /\ ~MarkerBefore(fret.text, 2)
    /\ MarkerBefore(fret.text, 3) /\ ~MarkerBefore(fret.text, 4)
    /\ MarkerBefore(fret.text, 5)

\* What a run hands to its save_minutes, as the file should hold it.
Rendered(save) ==
    IF save.variant = "web" THEN save.text
    ELSE <<SegmentHeader(1)>> \o save.text \o <<BlankLine>>

SameDaySameName(a, b) ==
    a.at.date = b.at.date /\ a.filename = b.filename

\* C7: two runs that complete on the same day with the same output filename
\* write to the same path, and after the later one the file holds exactly
\* the later run's content, nothing of the earlier run's.
C7_SameDayOverwrite ==
    \A i, j \in 1..Len(saves) :
        (i < j /\ SameDaySameName(saves[i], saves[j])) =>
            /\ saves[i].path = saves[j].path
            /\ (\A k \in (j + 1)..Len(saves) : saves[k].path # saves[j].path)
                  => fs[saves[j].path] = Rendered(saves[j])

C7_Witness ==
    /\ Len(saves) = 2
    /\ SameDaySameName(saves[1], saves[2])
    /\ saves[1].at # saves[2].at
    /\ Rendered(saves[1]) # Rendered(saves[2])
    /\ fs[saves[2].path] = Rendered(saves[2])

Occurrences(list, w) == Cardinality({i \in 1..Len(list) : list[i] = w})
Elements(list) == {list[i] : i \in 1..Len(list)}

\* C8: extract_keywords(tokens, K) with K >= 0 returns at most K elements,
\* pairwise distinct, each occurring in tokens, in order of non-increasing
\* frequency; no omitted token is more frequent than a returned one.
C8_TopKeywords ==
    fcall.fn = "extract_keywords" =>
      LET tokens == fcall.text
          result == fret.list
      IN  /\ Len(result) <= fcall.num_keywords
          /\ \A i, j \in 1..Len(result) : i # j => result[i] # result[j]
          /\ Elements(result) \subseteq Elements(tokens)
          /\ \A i, j \in 1..Len(result) :
                i < j => Occurrences(tokens, result[i])
                            >= Occurrences(tokens, result[j])
          /\ \A w \in Elements(tokens) \ Elements(result) :
                \A i \in 1..Len(result) :
                    Occurrences(tokens, w) <= Occurrences(tokens, result[i])

C8_Witness ==
    /\ fcall.fn = "extract_keywords"
    /\ fcall.text = <<"a", "b", "b", "c">>
    /\ fcall.num_keywords = 2
    /\ fret.list = <<"b", "a">>

\* Where sentence i starts, less one, in the join of the sentences.
RECURSIVE JoinOffset(_, _)
JoinOffset(sentences, i) ==
    IF i <= 1 THEN 0
    ELSE JoinOffset(sentences, i - 1) + Len(sentences[i - 1]) + 1

\* C9: for a text of M sentences and a requested length N, 0 <= N <= M,
\* generate_summary returns the first N sentences, unaltered and in order,
\* with exactly one space between consecutive ones.
C9_FirstNSentences ==
    (fcall.fn = "generate_summary"
        /\ fcall.num_sentences \in 0..Len(Sents(fcall.text, <<>>)))
      => LET sentences == Sents(fcall.text, <<>>)
             n == fcall.num_sentences
             result == fret.text
         IN  /\ Len(result) = IF n = 0 THEN 0 ELSE JoinOffset(sentences, n + 1) - 1
             /\ \A i \in 1..n :
                   /\ SubSeq(result, JoinOffset(sentences, i) + 1,
                             JoinOffset(sentences, i) + Len(sentences[i]))
                         = sentences[i]
                   /\ i < n => result[JoinOffset(sentences, i + 1)] = Space

C9_Witness ==
    /\ fcall.fn = "generate_summary"
    /\ fcall.text = Str(<<"a", ".", "a", ".", "a">>)
    /\ fcall.num_sentences = 2
    /\ fret.text = <<Word("a"), Word("."), Space, Word("a"), Word(".")>>

\* Where block i starts, less one, in the file.
RECURSIVE BlockOffset(_, _)
BlockOffset(meeting_minutes, i) ==
    IF i <= 1 THEN 0
    ELSE BlockOffset(meeting_minutes, i - 1)
            + Len(meeting_minutes[i - 1]) + 2

===========================================================================
